---- MODULE Spec2Model ----
(***************************************************************************)
(* Model of the fallback-chain query orchestrator and of the response      *)
(* normalizer of the transformation-rule generator (src/llm.service.py),   *)
(* with the error sink it writes to (src/error_handler.py).                *)
(*                                                                         *)
(* Texts are sequences of lexical tokens: a JSON string literal, a number, *)
(* a literal name, a punctuation mark, white space, a markdown code fence  *)
(* or a bare word that is no JSON token.  Python's None is the record      *)
(* None, and a present optional value v is Some(v).  A formatted string    *)
(* (an f-string) is the record of its fixed text and interpolated parts.   *)
(***************************************************************************)
EXTENDS Integers, Sequences, FiniteSets, TLC

\* ------------------------------------------------------------------ bounds
\* longest token sequence enumerated as an input text of the normalizer
MaxTextLen == 3
\* longest suggested_fixes list enumerated in an input object of the normalizer
MaxFixes == 2
\* number of orchestration calls served concurrently
NumCalls == 2

Calls == 1..NumCalls

\* ------------------------------------------------------- optional values
None == [some |-> FALSE]
Some(v) == [some |-> TRUE, v |-> v]

\* ------------------------------------------------------------ model catalog
MODEL_FALLBACK_CHAIN ==
  <<"sonar-large-chat", "sonar-large-online", "llama-3.1-70b-versatile", "sonar-small-online">>

\* the configured primary model: each catalog entry, and a name outside it
PrimaryModels ==
  {MODEL_FALLBACK_CHAIN[i] : i \in DOMAIN MODEL_FALLBACK_CHAIN} \cup {"sonar-pro"}

\* ------------------------------------------------------------------ tokens
Tok(k, v) == [k |-> k, v |-> v]
LBrace == Tok("p", "{")
RBrace == Tok("p", "}")
LBrack == Tok("p", "[")
RBrack == Tok("p", "]")
Comma == Tok("p", ",")
Colon == Tok("p", ":")
TStr(s) == Tok("str", s)
TNum(n) == Tok("num", n)
TTrue == Tok("lit", "true")
TFalse == Tok("lit", "false")
TNull == Tok("lit", "null")
TWord(w) == Tok("word", w)
WS == Tok("ws", " ")
FenceJson == Tok("fence", "json")
Fence == Tok("fence", "")

\* ------------------------------------------------------------- JSON values
JStr(s) == [type |-> "str", s |-> s]
JNum(n) == [type |-> "num", n |-> n]
JBool(b) == [type |-> "bool", b |-> b]
JNull == [type |-> "null"]
JArr(items) == [type |-> "arr", items |-> items]
JObj(fields) == [type |-> "obj", fields |-> fields]

\* the decoder's failure (json.JSONDecodeError)
DecodeError == [ok |-> FALSE]

\* white space between tokens is skipped by the scanner
Lex(text) == SelectSeq(text, LAMBDA t : t.k # "ws")

RECURSIVE ParseValue(_, _), ParseElems(_, _, _), ParseMembers(_, _, _)

\* one JSON value starting at token i: [ok, val, next] or DecodeError
ParseValue(t, i) ==
  IF i > Len(t) THEN DecodeError
  ELSE LET tok == t[i] IN
    CASE tok.k = "str" -> [ok |-> TRUE, val |-> JStr(tok.v), next |-> i + 1]
      [] tok.k = "num" -> [ok |-> TRUE, val |-> JNum(tok.v), next |-> i + 1]
      [] tok = TTrue -> [ok |-> TRUE, val |-> JBool(TRUE), next |-> i + 1]
      [] tok = TFalse -> [ok |-> TRUE, val |-> JBool(FALSE), next |-> i + 1]
      [] tok = TNull -> [ok |-> TRUE, val |-> JNull, next |-> i + 1]
      [] tok = LBrack ->
           IF i + 1 <= Len(t) /\ t[i + 1] = RBrack
           THEN [ok |-> TRUE, val |-> JArr(<<>>), next |-> i + 2]
           ELSE ParseElems(t, i + 1, <<>>)
      [] tok = LBrace ->
           IF i + 1 <= Len(t) /\ t[i + 1] = RBrace
           THEN [ok |-> TRUE, val |-> JObj(<<>>), next |-> i + 2]
           ELSE ParseMembers(t, i + 1, <<>>)
      [] OTHER -> DecodeError

\* the elements of an array after "[" or ",", acc the elements read so far
ParseElems(t, i, acc) ==
  LET r == ParseValue(t, i) IN
  IF ~r.ok THEN DecodeError
  ELSE LET items == Append(acc, r.val)
           j == r.next
       IN IF j > Len(t) THEN DecodeError
          ELSE IF t[j] = Comma THEN ParseElems(t, j + 1, items)
          ELSE IF t[j] = RBrack THEN [ok |-> TRUE, val |-> JArr(items), next |-> j + 1]
          ELSE DecodeError

\* the members of an object after "{" or ",": a repeated key keeps its last value
ParseMembers(t, i, acc) ==
  IF i + 1 > Len(t) \/ t[i].k # "str" \/ t[i + 1] # Colon THEN DecodeError
  ELSE LET r == ParseValue(t, i + 2) IN
    IF ~r.ok THEN DecodeError
    ELSE LET fields == (t[i].v :> r.val) @@ acc
             j == r.next
         IN IF j > Len(t) THEN DecodeError
            ELSE IF t[j] = Comma THEN ParseMembers(t, j + 1, fields)
            ELSE IF t[j] = RBrace THEN [ok |-> TRUE, val |-> JObj(fields), next |-> j + 1]
            ELSE DecodeError

\* json.loads: one value and nothing after it
json_loads(text) ==
  LET t == Lex(text)
      r == ParseValue(t, 1)
  IN IF r.ok /\ r.next = Len(t) + 1 THEN [ok |-> TRUE, val |-> r.val] ELSE DecodeError

isinstance(v, type) == v.type = type

\* Python truth value of a decoded value
Truthy(v) ==
  CASE v.type = "str" -> v.s # ""
    [] v.type = "num" -> v.n # "0"
    [] v.type = "bool" -> v.b
    [] v.type = "null" -> FALSE
    [] v.type = "arr" -> v.items # <<>>
    [] v.type = "obj" -> DOMAIN v.fields # {}

\* variant: the type of the decoded value is not looked at
_validate_json_response_AnyJson(response) == json_loads(response).ok

\* LLMService._validate_json_response: every exception is caught
_validate_json_response(response) ==
  LET parsed == json_loads(response) IN
  IF parsed.ok
  THEN IF isinstance(parsed.val, "obj") THEN TRUE ELSE FALSE
  ELSE FALSE

\* dict.get(key): None (JSON null) when the key is absent
Get(obj, key) == IF key \in DOMAIN obj.fields THEN obj.fields[key] ELSE JNull

\* dict.get(key, default)
GetDefault(obj, key, default) == IF key \in DOMAIN obj.fields THEN obj.fields[key] ELSE default

\* the result returned when the text does not decode
ParseFailureResult ==
  JObj([transformation_rules |-> JArr(<<JStr("JSON parsing error in AI response")>>),
        error_analysis |-> JStr("Failed to parse AI response as JSON: JSONDecodeError"),
        suggested_fixes |-> JArr(<<JObj([fix |-> JStr("Check AI response format and prompt engineering"),
                                         priority |-> JStr("high"),
                                         impact |-> JStr("Ensure consistent JSON output from AI model")])>>)])

DefaultFixes ==
  JArr(<<JObj([fix |-> JStr("No specific fixes suggested"),
               priority |-> JStr("medium"),
               impact |-> JStr("Unknown")])>>)

\* one element of suggested_fixes that is an object or a string
ValidatedFix(fix) ==
  IF isinstance(fix, "obj")
  THEN JObj([fix |-> GetDefault(fix, "fix", JStr("Unknown fix")),
             priority |-> GetDefault(fix, "priority", JStr("medium")),
             impact |-> GetDefault(fix, "impact", JStr("Unknown impact"))])
  ELSE JObj([fix |-> fix,
             priority |-> JStr("medium"),
             impact |-> JStr("General improvement")])

\* variant: the string branch is a plain else, so no element is skipped
ValidatedFixes_KeepAll(items) == [i \in 1..Len(items) |-> ValidatedFix(items[i])]

\* the loop over suggested_fixes: elements of other types are skipped
ValidatedFixes(items) ==
  LET kept == SelectSeq(items, LAMBDA f : isinstance(f, "obj") \/ isinstance(f, "str"))
  IN [i \in 1..Len(kept) |-> ValidatedFix(kept[i])]

NormTransformationRules(v) ==
  IF isinstance(v, "str") THEN JArr(<<v>>)
  ELSE IF ~Truthy(v) \/ ~isinstance(v, "arr")
       THEN JArr(<<JStr("No transformation rules generated")>>)
       ELSE v

\* variant: only the type of error_analysis is tested
NormErrorAnalysis_TypeOnly(v) ==
  IF ~isinstance(v, "str") THEN JStr("No error analysis provided") ELSE v

NormErrorAnalysis(v) ==
  IF ~Truthy(v) \/ ~isinstance(v, "str") THEN JStr("No error analysis provided") ELSE v

NormSuggestedFixes(v) ==
  IF ~Truthy(v) \/ ~isinstance(v, "arr") THEN DefaultFixes ELSE JArr(ValidatedFixes(v.items))

\* LLMService.parse_ai_response: only json.JSONDecodeError is caught, so the
\* .get of a decoded value that is no dict leaves the function as AttributeError
parse_ai_response(answer) ==
  LET structured_response == json_loads(answer) IN
  IF ~structured_response.ok
  THEN [raised |-> FALSE, ret |-> ParseFailureResult]
  ELSE IF ~isinstance(structured_response.val, "obj")
  THEN [raised |-> TRUE, exc |-> "AttributeError"]
  ELSE LET d == structured_response.val IN
       [raised |-> FALSE,
        ret |-> JObj([transformation_rules |-> NormTransformationRules(Get(d, "transformation_rules")),
                      error_analysis |-> NormErrorAnalysis(Get(d, "error_analysis")),
                      suggested_fixes |-> NormSuggestedFixes(Get(d, "suggested_fixes"))])]

\* ------------------------------------------------------------ serialization
\* the keys of a dict as a sequence.  A decoded object keeps no insertion order
\* here; the decoder reads the members back in any order to the same object.
RECURSIVE KeySeq(_)
KeySeq(keys) ==
  IF keys = {} THEN <<>>
  ELSE LET k == CHOOSE x \in keys : TRUE IN <<k>> \o KeySeq(keys \ {k})

RECURSIVE json_dumps(_), DumpItems(_, _), DumpMembers(_, _)

\* the elements items[i..] of a list, separated by ", "
DumpItems(items, i) ==
  IF i > Len(items) THEN <<>>
  ELSE json_dumps(items[i])
       \o (IF i < Len(items) THEN <<Comma, WS>> ELSE <<>>)
       \o DumpItems(items, i + 1)

\* the members of a dict for the keys ks, written "key": value and separated by ", "
DumpMembers(fields, ks) ==
  IF ks = <<>> THEN <<>>
  ELSE <<TStr(Head(ks)), Colon, WS>> \o json_dumps(fields[Head(ks)])
       \o (IF Len(ks) > 1 THEN <<Comma, WS>> ELSE <<>>)
       \o DumpMembers(fields, Tail(ks))

\* json.dumps
json_dumps(v) ==
  CASE v.type = "str" -> <<TStr(v.s)>>
    [] v.type = "num" -> <<TNum(v.n)>>
    [] v.type = "bool" -> IF v.b THEN <<TTrue>> ELSE <<TFalse>>
    [] v.type = "null" -> <<TNull>>
    [] v.type = "arr" -> <<LBrack>> \o DumpItems(v.items, 1) \o <<RBrack>>
    [] v.type = "obj" -> <<LBrace>> \o DumpMembers(v.fields, KeySeq(DOMAIN v.fields)) \o <<RBrace>>

\* ------------------------------------------------------------ model invoker
\* str.strip(): white space at both ends removed
Strip(s) ==
  LET keep == {i \in 1..Len(s) : s[i] # WS} IN
  IF keep = {} THEN <<>>
  ELSE SubSeq(s, CHOOSE i \in keep : \A j \in keep : i <= j,
                 CHOOSE i \in keep : \A j \in keep : i >= j)

\* the cleaning of the reply: a leading json fence, a trailing fence and a
\* leading fence are cut off in this order; cutting the three fence characters
\* off a json fence leaves the bare word json
CleanResponse(content) ==
  LET s0 == Strip(content)
      s1 == IF s0 # <<>> /\ s0[1] = FenceJson THEN Strip(Tail(s0)) ELSE s0
      s2 == IF s1 # <<>> /\ s1[Len(s1)] = Fence THEN Strip(SubSeq(s1, 1, Len(s1) - 1)) ELSE s1
      s3 == IF s2 # <<>> /\ s2[1] = Fence THEN Strip(Tail(s2))
            ELSE IF s2 # <<>> /\ s2[1] = FenceJson THEN Strip(<<TWord("json")>> \o Tail(s2))
            ELSE s2
  IN s3

\* what the provider request can do: raise e, or deliver a completion whose
\* message content is a text or null
Raise(e) == [kind |-> "raise", e |-> e]
Completion(content) == [kind |-> "completion", content |-> content]

ProviderErrors == {"connection refused"}

RawContents ==
  { None,
    Some(<<WS>>),
    Some(<<LBrace, RBrace>>),
    Some(<<FenceJson, WS, LBrace, TStr("error_analysis"), Colon, TStr("x"), RBrace, WS, Fence>>),
    Some(<<LBrack, TNum("1"), Comma, TNum("2"), Comma, TNum("3"), RBrack>>),
    Some(<<TWord("not"), WS, TWord("json")>>) }

ProviderOutcomes == {Raise(e) : e \in ProviderErrors} \cup {Completion(r) : r \in RawContents}

\* the exception the invoker's try block ends with, or None
InvokerException(outcome) ==
  IF outcome.kind = "raise" THEN Some(outcome.e)
  ELSE IF ~outcome.content.some THEN Some("'NoneType' object has no attribute 'strip'")
  ELSE None

\* f"Perplexity API error with model {model_name}: {str(e)}"
ApiErrorMessage(model_name, e) ==
  [fmt |-> "Perplexity API error with model {model_name}: {str(e)}", model_name |-> model_name, e |-> e]

\* the tuple query_perplexity_model returns for a provider outcome
query_perplexity_model(model_name, outcome) ==
  LET exc == InvokerException(outcome) IN
  IF exc.some
  THEN [answer |-> None, error |-> Some(ApiErrorMessage(model_name, exc.v)), used_model |-> model_name]
  ELSE [answer |-> Some(CleanResponse(outcome.content.v)), error |-> None, used_model |-> model_name]

\* ------------------------------------------------------------ workflow ids
NoWorkflow == [present |-> FALSE, id |-> 0]
Workflow(i) == [present |-> TRUE, id |-> i]
WorkflowIds == {NoWorkflow, Workflow(0), Workflow(7)}

\* "if workflow_id:" is false for None and for 0
WorkflowTruthy(w) == w.present /\ w.id # 0

\* "if answer": a text that is present and not empty
AnswerTruthy(a) == a.some /\ a.v # <<>>

\* ----------------------------------------------------------- configuration
\* main.py: PERPLEXITY_ALLOWED_MODELS
PERPLEXITY_ALLOWED_MODELS ==
  {"sonar", "sonar-mini", "sonar-small", "sonar-medium", "sonar-pro", "sonar-reasoning",
   "sonar-reasoning-pro"}

\* the values of the PERPLEXITY_MODEL environment variable: unset, or a model name
EnvModels == {None} \cup {Some(m) : m \in PrimaryModels}

\* os.getenv(name, default)
getenv(value, default) == IF value.some THEN value.v ELSE default

\* main.py: the module-level PERPLEXITY_MODEL, checked against the allow-list
MainPrimaryModel(env) ==
  LET _env_model == getenv(env, "sonar-pro") IN
  IF _env_model \in PERPLEXITY_ALLOWED_MODELS THEN _env_model ELSE "sonar-pro"

\* create_llm_service and LLMService.__init__: the primary model of the service
\* is the environment value, or "sonar-large-chat" when it is unset
create_llm_service(env) == getenv(env, "sonar-large-chat")

\* --------------------------------------------------------------- the state
VARIABLES
  primary_model,  \* LLMService.primary_model
  db_pool,        \* ErrorHandler.db_pool: TRUE when a connection pool exists
  error_logs,     \* the rows of the error_logs table the sink has inserted
  live,           \* the calls this run serves
  pc,             \* per call: "idle", "awaiting" (suspended in the provider request),
                  \*           "logging" (suspended in log_error), "done"
  pending,        \* per call: what the invoker will return once log_error is back
  workflow_id,    \* per call: the workflow_id argument
  model_chain,    \* per call: the local model_chain
  idx,            \* per call: position in model_chain of the current loop iteration
  attempts,       \* per call: the local attempts list
  last_error,     \* per call: the local last_error
  result,         \* per call: the returned tuple, None until the call returns
  invoked,        \* history, per call: the models the provider was asked for, in order
  outcomes,       \* history, per call: what each invocation returned, in order
  sink_calls,     \* history: the arguments of every log_error call, in order
  text,           \* the input text of the normalizer run
  npc,            \* the normalizer run: "input", "validated", "parsed"
  validation,     \* what _validate_json_response returned for text
  normalized,     \* what parse_ai_response returned or raised for text
  renormalized,   \* what parse_ai_response returned for the serialized result
  env_model,      \* the PERPLEXITY_MODEL environment variable, None when unset
  PERPLEXITY_MODEL, \* main.py: the module-level primary model
  endpoint,       \* main.py: the POST /query request being served
  provider        \* what the provider does for each model while that request is served

orch_vars == <<primary_model, db_pool, error_logs, live, pc, pending, workflow_id, model_chain, idx,
               attempts, last_error, result, invoked, outcomes, sink_calls>>
main_vars == <<env_model, PERPLEXITY_MODEL, endpoint, provider>>
norm_vars == <<text, npc, validation, normalized, renormalized>>
vars == <<orch_vars, norm_vars, main_vars>>

Range(seq) == {seq[i] : i \in DOMAIN seq}

\* ---------------------------------------------------------------- chain
\* variant: the catalog is appended without leaving the primary model out
BuildChain_NoFilter(primary) == <<primary>> \o MODEL_FALLBACK_CHAIN

\* [self.primary_model] + [model for model in MODEL_FALLBACK_CHAIN if model != self.primary_model]
BuildChain(primary) ==
  <<primary>> \o SelectSeq(MODEL_FALLBACK_CHAIN, LAMBDA model : model # primary)

\* ------------------------------------------------------------- error sink
ErrorRecord(w, error_type, log_message) ==
  [workflow_id |-> w.id, error_type |-> error_type, log_message |-> log_message]

\* ErrorHandler.log_error: the insert succeeds only if a pool exists and the
\* write goes through; every failure is caught and logged, nothing is raised
log_error(logs, w, error_type, log_message, write_ok) ==
  IF db_pool /\ write_ok THEN Append(logs, ErrorRecord(w, error_type, log_message)) ELSE logs

\* --------------------------------------------------------- the orchestrator
\* the dict appended to attempts after the invoker returned
Attempt(ret) == [model |-> ret.used_model, success |-> ret.answer.some, error |-> ret.error]

\* f"Model {used_model} returned invalid JSON format"
InvalidFormatMessage(used_model) ==
  [fmt |-> "Model {used_model} returned invalid JSON format", used_model |-> used_model]

\* f"All models failed. Attempts: {attempts}. Last error: {last_error}"
AllFailedMessage(atts, last) ==
  [fmt |-> "All models failed. Attempts: {attempts}. Last error: {last_error}",
   attempts |-> atts, last_error |-> last]

Returned(answer, error, used_model, atts) ==
  Some([answer |-> answer, error |-> error, used_model |-> used_model, attempts |-> atts])

\* Start: the call builds its chain and suspends in the request for the first model
Start(c, w) ==
  /\ c \in live
  /\ pc[c] = "idle"
  /\ LET chain == BuildChain(primary_model) IN
       /\ model_chain' = [model_chain EXCEPT ![c] = chain]
       /\ invoked' = [invoked EXCEPT ![c] = <<chain[1]>>]
  /\ workflow_id' = [workflow_id EXCEPT ![c] = w]
  /\ attempts' = [attempts EXCEPT ![c] = <<>>]
  /\ last_error' = [last_error EXCEPT ![c] = None]
  /\ idx' = [idx EXCEPT ![c] = 1]
  /\ pc' = [pc EXCEPT ![c] = "awaiting"]
  /\ UNCHANGED <<primary_model, db_pool, error_logs, live, result, outcomes, sink_calls, pending, norm_vars, main_vars>>

\* variant: the attempts list is kept on the service, one list for all calls in progress
Continue_SharedAttempts(c, atts, last) ==
  /\ attempts' = [d \in Calls |-> IF d = c \/ pc[d] \in {"awaiting", "logging"} THEN atts ELSE attempts[d]]
  /\ last_error' = [last_error EXCEPT ![c] = last]
  /\ IF idx[c] < Len(model_chain[c])
     THEN /\ idx' = [idx EXCEPT ![c] = @ + 1]
          /\ invoked' = [invoked EXCEPT ![c] = Append(@, model_chain[c][idx[c] + 1])]
          /\ pc' = [pc EXCEPT ![c] = "awaiting"]
          /\ UNCHANGED result
     ELSE /\ pc' = [pc EXCEPT ![c] = "done"]
          /\ result' = [result EXCEPT ![c] = Returned(None, Some(AllFailedMessage(atts, last)), None, atts)]
          /\ UNCHANGED <<idx, invoked>>

\* the loop goes on after an iteration that left atts and last: the next model
\* is requested, or the chain is exhausted and the call returns the failure
Continue(c, atts, last) ==
  /\ attempts' = [attempts EXCEPT ![c] = atts]
  /\ last_error' = [last_error EXCEPT ![c] = last]
  /\ IF idx[c] < Len(model_chain[c])
     THEN /\ idx' = [idx EXCEPT ![c] = @ + 1]
          /\ invoked' = [invoked EXCEPT ![c] = Append(@, model_chain[c][idx[c] + 1])]
          /\ pc' = [pc EXCEPT ![c] = "awaiting"]
          /\ UNCHANGED result
     ELSE /\ pc' = [pc EXCEPT ![c] = "done"]
          /\ result' = [result EXCEPT ![c] = Returned(None, Some(AllFailedMessage(atts, last)), None, atts)]
          /\ UNCHANGED <<idx, invoked>>

\* the provider request fails or delivers no content.  With a truthy
\* workflow_id the invoker calls log_error and is suspended in it; otherwise it
\* returns (None, error) at once and the loop goes on.
\* The invoker catches every Exception itself and log_error catches its own, so
\* nothing reaches the except branch of the loop (lines 252-260): that branch,
\* the only other place that appends an attempt and sets last_error, has no action.
InvokerFails(c, outcome) ==
  /\ pc[c] = "awaiting"
  /\ InvokerException(outcome).some
  /\ LET model_name == model_chain[c][idx[c]]
         ret == query_perplexity_model(model_name, outcome)
     IN IF WorkflowTruthy(workflow_id[c])
        THEN /\ sink_calls' = Append(sink_calls, ErrorRecord(workflow_id[c], "API_Error", ret.error.v))
             /\ pending' = [pending EXCEPT ![c] = Some(ret)]
             /\ pc' = [pc EXCEPT ![c] = "logging"]
             /\ UNCHANGED <<outcomes, attempts, last_error, idx, invoked, result>>
        ELSE /\ outcomes' = [outcomes EXCEPT ![c] = Append(@, ret)]
             /\ Continue(c, Append(attempts[c], Attempt(ret)), last_error[c])
             /\ UNCHANGED <<sink_calls, pending>>
  /\ UNCHANGED <<primary_model, db_pool, error_logs, live, workflow_id, model_chain,
                 norm_vars, main_vars>>

\* variant: a failed write is not caught in log_error; the exception leaves the
\* invoker and the except branch of the loop records str(e) for the model
SinkReturns_Raises(c, write_ok) ==
  /\ pc[c] = "logging"
  /\ LET ret == pending[c].v
         raised == [model |-> model_chain[c][idx[c]], success |-> FALSE, error |-> Some([fmt |-> "database error"])]
     IN /\ error_logs' = log_error(error_logs, workflow_id[c], "API_Error", ret.error.v, write_ok)
        /\ outcomes' = [outcomes EXCEPT ![c] = Append(@, ret)]
        /\ IF db_pool /\ write_ok
           THEN Continue(c, Append(attempts[c], Attempt(ret)), last_error[c])
           ELSE Continue(c, Append(attempts[c], raised), Some([fmt |-> "database error"]))
  /\ pending' = [pending EXCEPT ![c] = None]
  /\ UNCHANGED <<primary_model, db_pool, live, workflow_id, model_chain, sink_calls,
                 norm_vars, main_vars>>

\* log_error comes back, the row written or not: the invoker returns
\* (None, error) and the loop goes on
SinkReturns(c, write_ok) ==
  /\ pc[c] = "logging"
  /\ LET ret == pending[c].v
     IN /\ error_logs' = log_error(error_logs, workflow_id[c], "API_Error", ret.error.v, write_ok)
        /\ outcomes' = [outcomes EXCEPT ![c] = Append(@, ret)]
        /\ Continue(c, Append(attempts[c], Attempt(ret)), last_error[c])
  /\ pending' = [pending EXCEPT ![c] = None]
  /\ UNCHANGED <<primary_model, db_pool, live, workflow_id, model_chain, sink_calls,
                 norm_vars, main_vars>>

\* variant: the accepted answer is recorded but the loop is not left
AnswerAccepted_NoReturn(c, outcome) ==
  /\ pc[c] = "awaiting"
  /\ ~InvokerException(outcome).some
  /\ LET ret == query_perplexity_model(model_chain[c][idx[c]], outcome)
     IN /\ AnswerTruthy(ret.answer) /\ _validate_json_response(ret.answer.v)
        /\ outcomes' = [outcomes EXCEPT ![c] = Append(@, ret)]
        /\ Continue(c, Append(attempts[c], Attempt(ret)), last_error[c])
  /\ UNCHANGED <<primary_model, db_pool, error_logs, live, workflow_id, model_chain,
                 sink_calls, pending, norm_vars, main_vars>>

\* the invoker returns a text that is not empty and validates: the call returns it
AnswerAccepted(c, outcome) ==
  /\ pc[c] = "awaiting"
  /\ ~InvokerException(outcome).some
  /\ LET ret == query_perplexity_model(model_chain[c][idx[c]], outcome)
         atts == Append(attempts[c], Attempt(ret))
     IN /\ AnswerTruthy(ret.answer) /\ _validate_json_response(ret.answer.v)
        /\ outcomes' = [outcomes EXCEPT ![c] = Append(@, ret)]
        /\ attempts' = [attempts EXCEPT ![c] = atts]
        /\ result' = [result EXCEPT ![c] = Returned(ret.answer, None, Some(ret.used_model), atts)]
        /\ pc' = [pc EXCEPT ![c] = "done"]
  /\ UNCHANGED <<primary_model, db_pool, error_logs, live, workflow_id, model_chain, idx,
                 last_error, invoked, sink_calls, pending, norm_vars, main_vars>>

\* the invoker returns a text that is not empty and does not validate
AnswerRejected(c, outcome) ==
  /\ pc[c] = "awaiting"
  /\ ~InvokerException(outcome).some
  /\ LET ret == query_perplexity_model(model_chain[c][idx[c]], outcome)
     IN /\ AnswerTruthy(ret.answer) /\ ~_validate_json_response(ret.answer.v)
        /\ outcomes' = [outcomes EXCEPT ![c] = Append(@, ret)]
        /\ Continue(c, Append(attempts[c], Attempt(ret)), Some(InvalidFormatMessage(ret.used_model)))
  /\ UNCHANGED <<primary_model, db_pool, error_logs, live, workflow_id, model_chain,
                 sink_calls, pending, norm_vars, main_vars>>

\* variant: the answer is tested with "is not None", so the empty text is returned
AnswerEmpty_ReturnsEmpty(c, outcome) ==
  /\ pc[c] = "awaiting"
  /\ ~InvokerException(outcome).some
  /\ LET ret == query_perplexity_model(model_chain[c][idx[c]], outcome)
         atts == Append(attempts[c], Attempt(ret))
     IN /\ ~AnswerTruthy(ret.answer)
        /\ outcomes' = [outcomes EXCEPT ![c] = Append(@, ret)]
        /\ attempts' = [attempts EXCEPT ![c] = atts]
        /\ result' = [result EXCEPT ![c] = Returned(ret.answer, None, Some(ret.used_model), atts)]
        /\ pc' = [pc EXCEPT ![c] = "done"]
  /\ UNCHANGED <<primary_model, db_pool, error_logs, live, workflow_id, model_chain, idx,
                 last_error, invoked, sink_calls, pending, norm_vars, main_vars>>

\* variant: an empty answer moves on to the next model before the attempt is recorded
AnswerEmpty_NoAttempt(c, outcome) ==
  /\ pc[c] = "awaiting"
  /\ ~InvokerException(outcome).some
  /\ LET ret == query_perplexity_model(model_chain[c][idx[c]], outcome)
     IN /\ ~AnswerTruthy(ret.answer)
        /\ outcomes' = [outcomes EXCEPT ![c] = Append(@, ret)]
        /\ Continue(c, attempts[c], last_error[c])
  /\ UNCHANGED <<primary_model, db_pool, error_logs, live, workflow_id, model_chain,
                 sink_calls, pending, norm_vars, main_vars>>

\* the invoker returns the empty text: neither branch of the if is taken
AnswerEmpty(c, outcome) ==
  /\ pc[c] = "awaiting"
  /\ ~InvokerException(outcome).some
  /\ LET ret == query_perplexity_model(model_chain[c][idx[c]], outcome)
     IN /\ ~AnswerTruthy(ret.answer)
        /\ outcomes' = [outcomes EXCEPT ![c] = Append(@, ret)]
        /\ Continue(c, Append(attempts[c], Attempt(ret)), last_error[c])
  /\ UNCHANGED <<primary_model, db_pool, error_logs, live, workflow_id, model_chain,
                 sink_calls, pending, norm_vars, main_vars>>

\* ----------------------------------------------------------- specification
NormIdle ==
  /\ text = <<>>
  /\ npc = "off"
  /\ validation = None
  /\ normalized = None
  /\ renormalized = None

OrchIdle(serving) ==
  /\ error_logs = <<>>
  /\ live = serving
  /\ pc = [c \in Calls |-> "idle"]
  /\ pending = [c \in Calls |-> None]
  /\ workflow_id = [c \in Calls |-> NoWorkflow]
  /\ model_chain = [c \in Calls |-> <<>>]
  /\ idx = [c \in Calls |-> 0]
  /\ attempts = [c \in Calls |-> <<>>]
  /\ last_error = [c \in Calls |-> None]
  /\ result = [c \in Calls |-> None]
  /\ invoked = [c \in Calls |-> <<>>]
  /\ outcomes = [c \in Calls |-> <<>>]
  /\ sink_calls = <<>>

\* no POST /query request is served
EndpointOff == [pc |-> "off"]

MainIdle ==
  /\ endpoint = EndpointOff
  /\ provider = <<>>

\* one service, constructed by the factory from the environment, with or without
\* a pool, serving one orchestration call
Init ==
  /\ env_model \in EnvModels
  /\ primary_model = create_llm_service(env_model)
  /\ PERPLEXITY_MODEL = MainPrimaryModel(env_model)
  /\ db_pool \in BOOLEAN
  /\ OrchIdle({1})
  /\ NormIdle
  /\ MainIdle

Next ==
  \/ \E c \in Calls, w \in WorkflowIds : Start(c, w)
  \/ \E c \in Calls, o \in ProviderOutcomes : InvokerFails(c, o)
  \/ \E c \in Calls, write_ok \in BOOLEAN : SinkReturns(c, write_ok)
  \/ \E c \in Calls, o \in ProviderOutcomes : AnswerAccepted(c, o)
  \/ \E c \in Calls, o \in ProviderOutcomes : AnswerRejected(c, o)
  \/ \E c \in Calls, o \in ProviderOutcomes : AnswerEmpty(c, o)

Spec == Init /\ [][Next]_vars

\* ------------------------------------------------------- concurrent calls
\* what the provider does and what the callers pass while several calls are
\* served: a request fails or delivers an object
ConcurrentOutcomes == {Raise("connection refused"), Completion(Some(<<LBrace, RBrace>>))}

ConcurrentWorkflowIds == {NoWorkflow, Workflow(7)}

\* one service, its error handler without a pool, every call may be started
InitConc ==
  /\ env_model = None
  /\ primary_model = create_llm_service(env_model)
  /\ PERPLEXITY_MODEL = MainPrimaryModel(env_model)
  /\ db_pool = FALSE
  /\ OrchIdle(Calls)
  /\ NormIdle
  /\ MainIdle

\* the steps of the calls interleave at their suspension points: the provider
\* request and the log_error call
NextConc ==
  \/ \E c \in Calls, w \in ConcurrentWorkflowIds : Start(c, w)
  \/ \E c \in Calls, o \in ConcurrentOutcomes : InvokerFails(c, o)
  \/ \E c \in Calls, write_ok \in BOOLEAN : SinkReturns(c, write_ok)
  \/ \E c \in Calls, o \in ConcurrentOutcomes : AnswerAccepted(c, o)

SpecConc == InitConc /\ [][NextConc]_vars

\* ------------------------------------------------- the normalizer, run alone
TokenAlphabet ==
  {LBrace, RBrace, LBrack, RBrack, Comma, Colon, TStr("fix"), TNum("1"), TTrue, TNull,
   TWord("not"), WS}

\* "not json", "[1,2,3]" and "{}"
NotJsonText == <<TWord("not"), WS, TWord("json")>>
ArrayText == <<LBrack, TNum("1"), Comma, TNum("2"), Comma, TNum("3"), RBrack>>
EmptyObjectText == <<LBrace, RBrace>>

\* {"transformation_rules":"fix X","error_analysis":"","suggested_fixes":[]}
ScenarioText ==
  <<LBrace, TStr("transformation_rules"), Colon, TStr("fix X"), Comma,
    TStr("error_analysis"), Colon, TStr(""), Comma,
    TStr("suggested_fixes"), Colon, LBrack, RBrack, RBrace>>

NamedTexts == {NotJsonText, ArrayText, EmptyObjectText, ScenarioText}

\* what an input object can hold under each of the three keys: None is an absent key
RulesInputs ==
  {None, Some(JNull), Some(JStr("fix X")), Some(JStr("")), Some(JNum("1")), Some(JBool(TRUE)),
   Some(JObj("k" :> JStr("v"))), Some(JArr(<<>>)), Some(JArr(<<JStr("a"), JStr("b")>>)),
   Some(JArr(<<JNum("1")>>))}

AnalysisInputs ==
  {None, Some(JNull), Some(JStr("")), Some(JStr("x")), Some(JNum("1")), Some(JArr(<<JStr("x")>>))}

FixElements ==
  {JNum("1"), JNull, JStr("s"), JObj(<<>>), JObj("fix" :> JStr("f")),
   JObj([fix |-> JStr("f"), priority |-> JStr("high"), impact |-> JNull, note |-> JStr("n")])}

FixesInputs ==
  {None, Some(JNull), Some(JStr("s")), Some(JObj("fix" :> JStr("f")))}
    \cup {Some(JArr(items)) : items \in UNION {[1..n -> FixElements] : n \in 0..MaxFixes}}

\* the dict with the keys that are present
InputObject(r, a, f) ==
  JObj((IF r.some THEN "transformation_rules" :> r.v ELSE <<>>)
       @@ (IF a.some THEN "error_analysis" :> a.v ELSE <<>>)
       @@ (IF f.some THEN "suggested_fixes" :> f.v ELSE <<>>))

ObjectTexts ==
  {json_dumps(InputObject(r, a, f)) : r \in RulesInputs, a \in AnalysisInputs, f \in FixesInputs}

Texts == UNION {[1..n -> TokenAlphabet] : n \in 0..MaxTextLen} \cup NamedTexts \cup ObjectTexts

\* _validate_json_response is applied to the text
Validate ==
  /\ npc = "input"
  /\ validation = None
  /\ validation' = Some(_validate_json_response(text))
  /\ UNCHANGED <<text, npc, normalized, renormalized, orch_vars, main_vars>>

\* parse_ai_response is applied to the text
Normalize ==
  /\ npc = "input"
  /\ normalized = None
  /\ normalized' = Some(parse_ai_response(text))
  /\ UNCHANGED <<text, npc, validation, renormalized, orch_vars, main_vars>>

\* the returned result is serialized and parse_ai_response is applied to it
Renormalize ==
  /\ npc = "input"
  /\ normalized.some
  /\ ~normalized.v.raised
  /\ renormalized = None
  /\ renormalized' = Some(parse_ai_response(json_dumps(normalized.v.ret)))
  /\ UNCHANGED <<text, npc, validation, normalized, orch_vars, main_vars>>

InitNorm ==
  /\ env_model = None
  /\ primary_model = create_llm_service(env_model)
  /\ PERPLEXITY_MODEL = MainPrimaryModel(env_model)
  /\ db_pool = FALSE
  /\ OrchIdle({})
  /\ MainIdle
  /\ text \in Texts
  /\ npc = "input"
  /\ validation = None
  /\ normalized = None
  /\ renormalized = None

NextNorm == Validate \/ Normalize \/ Renormalize

SpecNorm == InitNorm /\ [][NextNorm]_vars

\* ------------------------------------------------- main.py: POST /query
\* the rows of the workflows table and the workflow ids requests carry
WorkflowsTable == {0, 7}
RequestWorkflowIds == {0, 7, 9}

\* what ends the try block of main.py's query_perplexity_model in its except
\* branch: a transport error, or a response without choices
MainErrors == {"connection refused", "Perplexity API returned no choices"}

\* the contents the provider delivers: none, an empty object, an object with
\* the three fields, an array, a text that is not JSON
MainContents == {None, Some(EmptyObjectText), Some(ScenarioText), Some(ArrayText), Some(NotJsonText)}

\* what the provider does for one model
MainOutcomes == {Raise(e) : e \in MainErrors} \cup {Completion(r) : r \in MainContents}

\* what the provider would do for every model of the fallback chain of the
\* primary model while one request is served
ProviderScripts(primary) ==
  [Range(BuildChain(primary)) -> MainOutcomes]

\* f"Perplexity API error: {str(e)}"
MainApiErrorMessage(e) == [fmt |-> "Perplexity API error: {str(e)}", e |-> e]

\* main.py's query_perplexity_model: (content or "", None), or (None, error_message)
main_query_perplexity_model(outcome) ==
  IF outcome.kind = "raise"
  THEN [answer |-> None, error |-> Some(MainApiErrorMessage(outcome.e))]
  ELSE [answer |-> Some(IF outcome.content.some THEN outcome.content.v ELSE <<>>), error |-> None]

\* the responses of the endpoint
HttpError(status_code, detail) == [status_code |-> status_code, detail |-> detail]
HttpOk(body) == [status_code |-> 200, body |-> body]

\* SELECT ... FROM error_logs WHERE workflow_id=$1
LogsOf(logs, w) == SelectSeq(logs, LAMBDA row : row.workflow_id = w)

\* the response built from a non-empty answer: the three fields of the decoded
\* object with their defaults, the parsing-error response for a text that does
\* not decode; .get on a decoded value that is not an object raises
\* AttributeError, which nothing catches: the framework answers 500
BuildResponse(answer, logs_list) ==
  LET structured_response == json_loads(answer) IN
  IF ~structured_response.ok
  THEN HttpOk([transformation_rules |-> JStr("No rules generated"),
               error_analysis |-> JStr("Parsing error"),
               suggested_fixes |-> JArr(<<>>),
               logs |-> logs_list])
  ELSE IF ~isinstance(structured_response.val, "obj")
  THEN HttpError(500, Some([fmt |-> "Internal Server Error"]))
  ELSE HttpOk([transformation_rules |-> GetDefault(structured_response.val, "transformation_rules", JStr("No rules generated")),
               error_analysis |-> GetDefault(structured_response.val, "error_analysis", JStr("No analysis available")),
               suggested_fixes |-> GetDefault(structured_response.val, "suggested_fixes", JArr(<<>>)),
               logs |-> logs_list])

\* the request in one of its states
Request(state, w, logs_list, error_info, response) ==
  [pc |-> state, workflow_id |-> w, logs_list |-> logs_list, error_info |-> error_info,
   response |-> response]

\* POST /query arrives: 503 without a pool, 404 for an unknown workflow;
\* otherwise the logs are read, the prompt is built and the handler is
\* suspended in the provider request for PERPLEXITY_MODEL
Receive(w) ==
  /\ endpoint.pc = "off"
  /\ provider' \in ProviderScripts(PERPLEXITY_MODEL)
  /\ endpoint' =
       IF ~db_pool THEN Request("done", w, <<>>, None, Some(HttpError(503, Some([fmt |-> "Database not configured"]))))
       ELSE IF w \notin WorkflowsTable
       THEN Request("done", w, <<>>, None, Some(HttpError(404, Some([fmt |-> "Workflow not found"]))))
       ELSE Request("requesting", w, LogsOf(error_logs, w), None, None)
  /\ UNCHANGED <<orch_vars, norm_vars, env_model, PERPLEXITY_MODEL>>

\* the request for PERPLEXITY_MODEL fails: with a truthy workflow_id the
\* invoker is suspended in log_error, otherwise it returns (None, error_message)
\* and the handler raises HTTPException(500, detail=error_info)
MainInvokerFails ==
  /\ endpoint.pc = "requesting"
  /\ provider[PERPLEXITY_MODEL].kind = "raise"
  /\ LET ret == main_query_perplexity_model(provider[PERPLEXITY_MODEL])
         w == endpoint.workflow_id
     IN IF w # 0
        THEN /\ sink_calls' = Append(sink_calls, ErrorRecord(Workflow(w), "API_Error", ret.error.v))
             /\ endpoint' = Request("logging", w, endpoint.logs_list, ret.error, None)
        ELSE /\ endpoint' = Request("done", w, endpoint.logs_list, ret.error, Some(HttpError(500, ret.error)))
             /\ UNCHANGED sink_calls
  /\ UNCHANGED <<primary_model, db_pool, error_logs, live, pc, pending, workflow_id, model_chain, idx,
                 attempts, last_error, result, invoked, outcomes, norm_vars, env_model,
                 PERPLEXITY_MODEL, provider>>

\* log_error is back: the invoker returns (None, error_message) and the handler
\* raises HTTPException(500, detail=error_info)
MainSinkReturns(write_ok) ==
  /\ endpoint.pc = "logging"
  /\ error_logs' = log_error(error_logs, Workflow(endpoint.workflow_id), "API_Error", endpoint.error_info.v, write_ok)
  /\ endpoint' = Request("done", endpoint.workflow_id, endpoint.logs_list, endpoint.error_info,
                         Some(HttpError(500, endpoint.error_info)))
  /\ UNCHANGED <<primary_model, db_pool, live, pc, pending, workflow_id, model_chain, idx,
                 attempts, last_error, result, invoked, outcomes, sink_calls, norm_vars,
                 env_model, PERPLEXITY_MODEL, provider>>

\* the invoker returns (content, None): an empty answer is a 500 with detail
\* None, any other answer is decoded and answered
MainInvokerReturns ==
  /\ endpoint.pc = "requesting"
  /\ provider[PERPLEXITY_MODEL].kind = "completion"
  /\ LET ret == main_query_perplexity_model(provider[PERPLEXITY_MODEL])
     IN endpoint' =
          Request("done", endpoint.workflow_id, endpoint.logs_list, None,
                  IF ~AnswerTruthy(ret.answer) THEN Some(HttpError(500, None))
                  ELSE Some(BuildResponse(ret.answer.v, endpoint.logs_list)))
  /\ UNCHANGED <<orch_vars, norm_vars, env_model, PERPLEXITY_MODEL, provider>>

\* the application process: PERPLEXITY_MODEL set at import, the pool made at
\* startup or not, no request yet
InitEndpoint ==
  /\ env_model \in {None, Some("sonar-large-online")}
  /\ primary_model = create_llm_service(env_model)
  /\ PERPLEXITY_MODEL = MainPrimaryModel(env_model)
  /\ db_pool \in BOOLEAN
  /\ OrchIdle({})
  /\ NormIdle
  /\ MainIdle

NextEndpoint ==
  \/ \E w \in RequestWorkflowIds : Receive(w)
  \/ MainInvokerFails
  \/ \E write_ok \in BOOLEAN : MainSinkReturns(write_ok)
  \/ MainInvokerReturns

SpecEndpoint == InitEndpoint /\ [][NextEndpoint]_vars

\* ------------------------------------------------------------------ claims
NoDuplicates(seq) == \A i, j \in DOMAIN seq : seq[i] = seq[j] => i = j
CatalogIndex(m) == CHOOSE i \in DOMAIN MODEL_FALLBACK_CHAIN : MODEL_FALLBACK_CHAIN[i] = m

\* an invoker return whose reply is present, not empty and structurally valid
Acceptable(ret) ==
  /\ ret.answer.some
  /\ ret.answer.v # <<>>
  /\ _validate_json_response(ret.answer.v)

\* the k-th invocation of call c is the first with an acceptable reply
FirstAcceptable(c, k) ==
  /\ k \in DOMAIN outcomes[c]
  /\ Acceptable(outcomes[c][k])
  /\ \A j \in 1..(k - 1) : ~Acceptable(outcomes[c][j])

\* C1: when the model at position k of the chain is the first whose reply is
\* non-empty and valid, the call returns that reply with used_model that model
\* and exactly k attempts, and the models after position k are never invoked.
C1_FirstValidStopsChain ==
  \A c \in Calls : \A k \in DOMAIN outcomes[c] :
    FirstAcceptable(c, k) =>
      /\ pc[c] = "done"
      /\ result[c].some
      /\ result[c].v.answer = outcomes[c][k].answer
      /\ result[c].v.used_model = Some(model_chain[c][k])
      /\ Len(result[c].v.attempts) = k
      /\ invoked[c] = SubSeq(model_chain[c], 1, k)
      /\ \A j \in (k + 1)..Len(model_chain[c]) : model_chain[c][j] \notin Range(invoked[c])

C1_Witness ==
  \E c \in Calls :
    /\ FirstAcceptable(c, 3)
    /\ Len(model_chain[c]) = 5
    /\ pc[c] = "done"

\* C2: a call in which every model fails returns exactly N attempts, named
\* after the chain in chain order, each with success false.
C2_AllFailAttemptsAllFalse ==
  \A c \in Calls :
    (pc[c] = "done" /\ \A k \in DOMAIN outcomes[c] : ~Acceptable(outcomes[c][k])) =>
      LET atts == result[c].v.attempts IN
      /\ Len(atts) = Len(model_chain[c])
      /\ \A i \in DOMAIN atts : atts[i].model = model_chain[c][i]
      /\ \A i \in DOMAIN atts : atts[i].success = FALSE

\* C3: every result is a success (a non-empty valid answer, the model that
\* produced it, no error) or a failure (no answer, no model, a diagnostic
\* message); no empty or invalid answer is returned as a success.
C3_ResultShape ==
  \A c \in Calls :
    pc[c] = "done" =>
      LET r == result[c].v
          n == Len(outcomes[c])
      IN \/ /\ r.answer.some
            /\ r.answer.v # <<>>
            /\ _validate_json_response(r.answer.v)
            /\ r.answer = outcomes[c][n].answer
            /\ r.used_model = Some(invoked[c][n])
            /\ r.error = None
         \/ /\ r.answer = None
            /\ r.used_model = None
            /\ r.error.some
            /\ r.error.v.fmt # ""

C3_Witness ==
  \E c \in Calls :
    /\ pc[c] = "done"
    /\ result[c].v.answer = None
    /\ \E i \in DOMAIN outcomes[c] : outcomes[c][i].answer = Some(<<>>)
    /\ \E i \in DOMAIN outcomes[c] : AnswerTruthy(outcomes[c][i].answer)

\* C4: an Attempt has success true exactly when the model's reply was present,
\* non-empty and valid; so at most one Attempt of a call has success true, and
\* it is the last one.
C4_SuccessIffAcceptable ==
  \A c \in Calls :
    /\ \A i \in DOMAIN attempts[c] : attempts[c][i].success <=> Acceptable(outcomes[c][i])
    /\ \A i \in DOMAIN attempts[c] : attempts[c][i].success => i = Len(attempts[c])

\* C5: a reply that is non-empty but invalid is recorded with success false and
\* an error naming the invalid format; an invoker failure is recorded with the
\* invoker's error string; in both cases the next model is invoked.
C5_FailuresRecordedWithReason ==
  \A c \in Calls : \A i \in DOMAIN attempts[c] :
    LET ret == outcomes[c][i] IN
    /\ (AnswerTruthy(ret.answer) /\ ~_validate_json_response(ret.answer.v)) =>
         /\ attempts[c][i].success = FALSE
         /\ attempts[c][i].error = Some(InvalidFormatMessage(ret.used_model))
    /\ ret.error.some => attempts[c][i].error = ret.error
    /\ (~Acceptable(ret) /\ i < Len(model_chain[c])) =>
         /\ Len(invoked[c]) > i
         /\ invoked[c][i + 1] = model_chain[c][i + 1]

\* C6: the chain starts with the primary model, names no model twice, and
\* continues with the catalog entries other than the primary in catalog order;
\* for the primary "sonar-large-chat" it is the catalog itself.
C6_ChainShape ==
  \A c \in Calls :
    pc[c] # "idle" =>
      LET chain == model_chain[c]
          rest == Tail(chain)
      IN /\ chain[1] = primary_model
         /\ NoDuplicates(chain)
         /\ Range(rest) = Range(MODEL_FALLBACK_CHAIN) \ {primary_model}
         /\ \A i, j \in DOMAIN rest : i < j => CatalogIndex(rest[i]) < CatalogIndex(rest[j])
         /\ primary_model = "sonar-large-chat" =>
              chain = <<"sonar-large-chat", "sonar-large-online",
                        "llama-3.1-70b-versatile", "sonar-small-online">>

C6_Witness ==
  \E c \in Calls :
    /\ pc[c] # "idle"
    /\ primary_model = "llama-3.1-70b-versatile"
    /\ model_chain[c] = <<"llama-3.1-70b-versatile", "sonar-large-chat",
                          "sonar-large-online", "sonar-small-online">>

\* the reason the last invocation of a failed call failed with
LastFailureReason(c) ==
  LET ret == outcomes[c][Len(outcomes[c])] IN
  IF ret.error.some THEN ret.error ELSE Some(InvalidFormatMessage(ret.used_model))

\* C7: the error of an exhausted chain lists every attempt and reports the last
\* error: the failure reason of the last model that failed, never absent.
C7_LastErrorReported ==
  \A c \in Calls :
    (pc[c] = "done" /\ result[c].v.answer = None) =>
      LET msg == result[c].v.error.v IN
      /\ msg.attempts = attempts[c]
      /\ Len(msg.attempts) = Len(model_chain[c])
      /\ msg.last_error.some
      /\ outcomes[c][Len(outcomes[c])].answer # Some(<<>>) => msg.last_error = LastFailureReason(c)

\* the attempts of call c name, in order, the first invocations of the call
AttemptsNameInvoked(c) ==
  /\ Len(attempts[c]) <= Len(invoked[c])
  /\ \A i \in DOMAIN attempts[c] : attempts[c][i].model = invoked[c][i]

\* C8 as stated: every model is invoked at most once, and at every point of the
\* call there are as many Attempts as invoker calls made so far, the i-th
\* Attempt naming the i-th invoked model.
C8_AttemptsEqualCallsAlways ==
  \A c \in Calls :
    /\ NoDuplicates(invoked[c])
    /\ Len(attempts[c]) = Len(invoked[c])
    /\ AttemptsNameInvoked(c)

\* C8 amended: every model is invoked at most once, and the Attempts are the
\* invoker calls that have returned, in order: one fewer than the calls made
\* while a request is awaited, as many as the calls made once the call returned.
C8_AttemptsAreReturnedCalls ==
  \A c \in Calls :
    /\ NoDuplicates(invoked[c])
    /\ AttemptsNameInvoked(c)
    /\ pc[c] \in {"awaiting", "logging"} => Len(attempts[c]) = Len(invoked[c]) - 1
    /\ pc[c] \notin {"awaiting", "logging"} => Len(attempts[c]) = Len(invoked[c])

C8_Witness ==
  \E c \in Calls :
    /\ pc[c] = "awaiting"
    /\ Len(invoked[c]) = 3
    /\ Len(attempts[c]) = 2
    /\ attempts[c][2].model = invoked[c][2]

\* the text is one JSON value, and that value is an object
DecodesToObject(t) == json_loads(t).ok /\ json_loads(t).val.type = "obj"

\* C9: _validate_json_response is true exactly for the texts that parse as JSON
\* with an object at the top level, and false without raising for all others;
\* false for "not json" and "[1,2,3]", true for "{}".
C9_ValidateIffObject ==
  validation.some =>
    /\ validation.v \in BOOLEAN
    /\ validation.v <=> DecodesToObject(text)
    /\ validation.v => (Lex(text)[1] = LBrace /\ Lex(text)[Len(Lex(text))] = RBrace)
    /\ text = NotJsonText => validation.v = FALSE
    /\ text = ArrayText => validation.v = FALSE
    /\ text = EmptyObjectText => validation.v = TRUE
    /\ (json_loads(text).ok /\ Lex(text)[1] # LBrace) => validation.v = FALSE

C9_Witness ==
  /\ validation = Some(FALSE)
  /\ text = ArrayText

\* C10: parse_ai_response raises for no text; for an unparseable text and for a
\* text whose top-level value is no object it returns a result with the three
\* fields transformation_rules, error_analysis and suggested_fixes.
C10_ParseNeverRaises ==
  normalized.some =>
    /\ ~normalized.v.raised
    /\ DOMAIN normalized.v.ret.fields = {"transformation_rules", "error_analysis", "suggested_fixes"}

\* C11: parse_ai_response is idempotent: applied to the serialization of a result
\* it returned, it returns an equal result, also when suggested_fixes held only
\* elements that are neither objects nor strings.
C11_Idempotent ==
  renormalized.some =>
    /\ ~renormalized.v.raised
    /\ renormalized.v.ret = normalized.v.ret

\* the fields of the result of a normalizer run that returned
Result(field) == normalized.v.ret.fields[field]

\* C12: every returned result has transformation_rules a non-empty list of
\* strings, error_analysis a non-empty string and suggested_fixes a non-empty
\* list of entries with exactly the keys fix, priority and impact.
C12_ResultShape ==
  (normalized.some /\ ~normalized.v.raised) =>
    /\ Result("transformation_rules").type = "arr"
    /\ Result("transformation_rules").items # <<>>
    /\ \A i \in DOMAIN Result("transformation_rules").items :
         Result("transformation_rules").items[i].type = "str"
    /\ Result("error_analysis").type = "str"
    /\ Result("error_analysis").s # ""
    /\ Result("suggested_fixes").type = "arr"
    /\ Result("suggested_fixes").items # <<>>
    /\ \A i \in DOMAIN Result("suggested_fixes").items :
         /\ Result("suggested_fixes").items[i].type = "obj"
         /\ DOMAIN Result("suggested_fixes").items[i].fields = {"fix", "priority", "impact"}

\* the text decodes to an object and parse_ai_response has returned for it
ParsedObject == normalized.some /\ json_loads(text).ok /\ json_loads(text).val.type = "obj"
Given(key) == json_loads(text).val.fields[key]
Has(key) == key \in DOMAIN json_loads(text).val.fields

RulesPlaceholder == JArr(<<JStr("No transformation rules generated")>>)
AnalysisPlaceholder == JStr("No error analysis provided")

\* C13: on a parsed object transformation_rules given as a string s becomes [s],
\* a non-empty list is kept, and anything else (absent, empty list, other type)
\* becomes the placeholder list; error_analysis is kept when it is a non-empty
\* string and becomes the placeholder string otherwise; each field is decided
\* by its own input alone.
C13_RulesAndAnalysisDefaults ==
  ParsedObject =>
    /\ ~normalized.v.raised
    /\ IF ~Has("transformation_rules") THEN Result("transformation_rules") = RulesPlaceholder
       ELSE IF Given("transformation_rules").type = "str"
         THEN Result("transformation_rules") = JArr(<<Given("transformation_rules")>>)
       ELSE IF Given("transformation_rules").type = "arr" /\ Given("transformation_rules").items # <<>>
         THEN Result("transformation_rules") = Given("transformation_rules")
       ELSE Result("transformation_rules") = RulesPlaceholder
    /\ IF Has("error_analysis") /\ Given("error_analysis").type = "str"
          /\ Given("error_analysis").s # ""
       THEN Result("error_analysis") = Given("error_analysis")
       ELSE Result("error_analysis") = AnalysisPlaceholder
    /\ text = ScenarioText =>
         /\ Result("transformation_rules") = JArr(<<JStr("fix X")>>)
         /\ Result("error_analysis") = JStr("No error analysis provided")
         /\ Result("suggested_fixes") =
              JArr(<<JObj([fix |-> JStr("No specific fixes suggested"),
                           priority |-> JStr("medium"), impact |-> JStr("Unknown")])>>)

C13_Witness ==
  /\ ParsedObject
  /\ Has("transformation_rules") /\ Given("transformation_rules") = JStr("fix X")
  /\ Has("error_analysis") /\ Given("error_analysis") = JStr("")
  /\ Has("suggested_fixes") /\ Given("suggested_fixes").type = "arr"
  /\ Len(Given("suggested_fixes").items) = 2
  /\ Result("transformation_rules") = JArr(<<JStr("fix X")>>)
  /\ Result("error_analysis") = AnalysisPlaceholder

\* the value under key of a fix object, or the default of that key
FixValue(fix, key, default) == IF key \in DOMAIN fix.fields THEN fix.fields[key] ELSE default

\* the entries the claim gives for a list of fixes, element by element
RECURSIVE ExpectedFixes(_)
ExpectedFixes(items) ==
  IF items = <<>> THEN <<>>
  ELSE LET e == Head(items) IN
    (CASE e.type = "obj" ->
            <<JObj([fix |-> FixValue(e, "fix", JStr("Unknown fix")),
                    priority |-> FixValue(e, "priority", JStr("medium")),
                    impact |-> FixValue(e, "impact", JStr("Unknown impact"))])>>
       [] e.type = "str" ->
            <<JObj([fix |-> e, priority |-> JStr("medium"), impact |-> JStr("General improvement")])>>
       [] OTHER -> <<>>)
    \o ExpectedFixes(Tail(items))

FixesPlaceholder ==
  JArr(<<JObj([fix |-> JStr("No specific fixes suggested"),
               priority |-> JStr("medium"), impact |-> JStr("Unknown")])>>)

\* C14: on a parsed object suggested_fixes that is absent, no list or an empty
\* list yields the placeholder entry; a non-empty list yields, in input order,
\* one entry per object element with the per-key defaults and one entry per
\* string element, the elements of other types being left out.
C14_FixesMapping ==
  ParsedObject =>
    /\ ~normalized.v.raised
    /\ IF Has("suggested_fixes") /\ Given("suggested_fixes").type = "arr"
          /\ Given("suggested_fixes").items # <<>>
       THEN Result("suggested_fixes") = JArr(ExpectedFixes(Given("suggested_fixes").items))
       ELSE Result("suggested_fixes") = FixesPlaceholder

C14_Witness ==
  /\ ParsedObject
  /\ Has("suggested_fixes")
  /\ Given("suggested_fixes") = JArr(<<JNum("1"), JObj("fix" :> JStr("f"))>>)
  /\ Result("suggested_fixes") =
       JArr(<<JObj([fix |-> JStr("f"), priority |-> JStr("medium"), impact |-> JStr("Unknown impact")])>>)

\* the invocations of call c that failed, and those among them whose log_error
\* call has been made: all that returned, and the one suspended in log_error
FailedInvocations(c) == {i \in DOMAIN outcomes[c] : outcomes[c][i].error.some}
FailuresSoFar(c) == Cardinality(FailedInvocations(c)) + (IF pc[c] = "logging" THEN 1 ELSE 0)

RECURSIVE SumOver(_, _)
SumOver(S, f) ==
  IF S = {} THEN 0 ELSE LET x == CHOOSE y \in S : TRUE IN f[x] + SumOver(S \ {x}, f)

\* C15: a failing invoker call returns (None, error) with a non-empty error and,
\* when a workflow id was supplied, whatever its integer value, calls log_error
\* exactly once with that id and the error message; without a workflow id the
\* sink is not called.  N failing models of a call with a workflow id forward N records.
C15_EveryFailureForwarded ==
  /\ \A c \in Calls : \A i \in FailedInvocations(c) :
       /\ outcomes[c][i].answer = None
       /\ outcomes[c][i].error.v.fmt # ""
       /\ workflow_id[c].present =>
            ErrorRecord(workflow_id[c], "API_Error", outcomes[c][i].error.v) \in Range(sink_calls)
  /\ Len(sink_calls) =
       SumOver(Calls, [c \in Calls |-> IF workflow_id[c].present THEN FailuresSoFar(c) ELSE 0])

\* the attempts and the result a call has by its chain and the returns of its
\* invocations alone
AttemptsOf(chain, outs) ==
  [i \in DOMAIN outs |-> [model |-> chain[i], success |-> outs[i].answer.some, error |-> outs[i].error]]

RECURSIVE LastInvalidFormat(_, _)
LastInvalidFormat(chain, outs) ==
  IF outs = <<>> THEN None
  ELSE LET n == Len(outs) IN
    IF outs[n].answer.some /\ outs[n].answer.v # <<>>
    THEN Some(InvalidFormatMessage(chain[n]))
    ELSE LastInvalidFormat(chain, SubSeq(outs, 1, n - 1))

ResultOf(chain, outs) ==
  LET n == Len(outs) IN
  IF Acceptable(outs[n])
  THEN Some([answer |-> outs[n].answer, error |-> None, used_model |-> Some(chain[n]),
             attempts |-> AttemptsOf(chain, outs)])
  ELSE Some([answer |-> None,
             error |-> Some([fmt |-> "All models failed. Attempts: {attempts}. Last error: {last_error}",
                             attempts |-> AttemptsOf(chain, outs),
                             last_error |-> LastInvalidFormat(chain, outs)]),
             used_model |-> None,
             attempts |-> AttemptsOf(chain, outs)])

\* C16: a failing sink never surfaces: log_error returns whether the row is
\* written, the write fails or no pool exists, and what the call records and
\* returns is given by the outcomes of its models alone, the same whether the
\* sink writes succeed or fail.
C16_SinkFailureNeverSurfaces ==
  \A c \in Calls :
    /\ pc[c] # "idle" => attempts[c] = AttemptsOf(model_chain[c], outcomes[c])
    /\ pc[c] = "done" => result[c] = ResultOf(model_chain[c], outcomes[c])
    /\ Len(error_logs) <= Len(sink_calls)
    /\ ~db_pool => error_logs = <<>>

C16_Witness ==
  \E c \in Calls :
    /\ pc[c] = "done"
    /\ db_pool
    /\ Len(sink_calls) = 3
    /\ Len(error_logs) = 1
    /\ result[c].v.answer.some

\* C17: concurrent calls are isolated: under every interleaving each call's
\* attempts are the Attempts of its own invocations in its own chain order, and
\* its result is the one it returns when run alone with the same model
\* outcomes; the fallback ordering every call reads stays the catalog.
C17_CallsIsolated ==
  \A c \in Calls :
    pc[c] # "idle" =>
      /\ model_chain[c] = BuildChain(primary_model)
      /\ Len(attempts[c]) = Len(outcomes[c])
      /\ \A i \in DOMAIN attempts[c] :
           /\ attempts[c][i].model = model_chain[c][i]
           /\ attempts[c][i].error = outcomes[c][i].error
           /\ attempts[c][i].success = outcomes[c][i].answer.some
      /\ pc[c] = "done" =>
           /\ result[c].v.attempts = attempts[c]
           /\ result[c] = ResultOf(model_chain[c], outcomes[c])

C17_Witness ==
  \E c, d \in Calls :
    /\ c # d
    /\ pc[c] = "awaiting" /\ Len(attempts[c]) = 1
    /\ pc[d] = "logging" /\ Len(attempts[d]) = 2
    /\ attempts[c] = AttemptsOf(model_chain[c], outcomes[c])
    /\ attempts[d] = AttemptsOf(model_chain[d], outcomes[d])

\* C18: a configured primary model name outside the allow-list is never used:
\* on both construction paths (main.py's module-level PERPLEXITY_MODEL and the
\* service made by create_llm_service) the primary model is then the fixed
\* default of that path, and the first model a call requests from the provider
\* is that default.
C18_PrimaryValidated ==
  (env_model.some /\ env_model.v \notin PERPLEXITY_ALLOWED_MODELS) =>
    /\ PERPLEXITY_MODEL = "sonar-pro"
    /\ primary_model = "sonar-large-chat"
    /\ \A c \in Calls : invoked[c] # <<>> => invoked[c][1] = "sonar-large-chat"

\* the first model after the primary whose scripted reply the orchestrator
\* would accept, None when there is none
FallbackReply ==
  LET chain == BuildChain(PERPLEXITY_MODEL)
      ok == {i \in 2..Len(chain) : Acceptable(query_perplexity_model(chain[i], provider[chain[i]]))}
  IN IF ok = {} THEN None
     ELSE LET k == CHOOSE i \in ok : \A j \in ok : i <= j
          IN query_perplexity_model(chain[k], provider[chain[k]]).answer

\* C19: POST /query on an existing workflow goes through the fallback chain:
\* when the request for the primary model fails and a later model of the chain
\* would return a structurally valid reply, the endpoint answers 200 with the
\* three fields of that reply, not with an error response.
C19_EndpointFallsBack ==
  (/\ endpoint.pc = "done"
   /\ db_pool
   /\ endpoint.workflow_id \in WorkflowsTable
   /\ provider[PERPLEXITY_MODEL].kind = "raise"
   /\ FallbackReply.some)
  => endpoint.response.v = BuildResponse(FallbackReply.v, endpoint.logs_list)

====
